---- MODULE Spec2Model ----
(***************************************************************************)
(* A model of pyidi.pyIDI (src/pyidi/pyidi.py): the session that binds a   *)
(* displacement-identification method to a video, computes displacements,  *)
(* and saves them into a versioned analysis directory.                     *)
(*                                                                         *)
(* Every process p owns one pyIDI session.  The file system (the analysis  *)
(* root of the video, its run directories and the files in them) is shared *)
(* by all processes.  Calls that touch the file system are split at their  *)
(* system calls, so that processes interleave where the code can.          *)
(***************************************************************************)
EXTENDS Integers, Sequences, FiniteSets, TLC

VARIABLES
    platform,            \* "nt" or "posix": decides os.sep in what glob returns
    rootExists,          \* <video>_pyidi_analysis exists
    runs,                \* names (digit strings) of the analysis_<name> directories
    files,               \* the files written: records [dir, name, content]
    procs,               \* the processes of this behaviour
    cih,                 \* p -> kind of self.cih_file: "path", "array" or another type
    method,              \* p -> self.method (bound = hasattr(self, 'method'))
    method_name,         \* p -> self.method_name (NoName: attribute absent)
    displacements,       \* p -> self.displacements (0: attribute absent)
    points,              \* p -> self.points (NoPoints: attribute absent)
    root_this_analysis,  \* p -> self.root_this_analysis (NoDir: attribute absent)
    pc,                  \* p -> position inside the running call
    call,                \* p -> the running (or last) top-level call and its arguments
    err,                 \* p -> exception the last call raised (NoErr: none)
    ret,                 \* p -> value the last call returned (0: none)
    trace,               \* p -> steps taken by the running (or last) call, in order
    rootSeen,            \* p -> result of os.path.exists(self.root_analysis)
    analyses,            \* p -> the local `analyses`: names glob returned
    budget,              \* p -> run directories p may still ask for
    created,             \* p -> outcome of each create_analysis_directory of p, in order
    mraw,                \* p -> self.mraw (NoVideo: attribute absent)
    N,                   \* p -> self.N (Unset: attribute absent)
    image_height,        \* p -> self.image_height (Unset: attribute absent)
    image_width,         \* p -> self.image_width (Unset: attribute absent)
    viewer               \* p -> the napari viewer of __call__ and its layers

vars == <<platform, rootExists, runs, files, procs, cih, method, method_name,
          displacements, points, root_this_analysis, pc, call, err, ret, trace,
          rootSeen, analyses, budget, created, mraw, N, image_height, image_width,
          viewer>>

fsVars == <<rootExists, runs, files>>
sessVars == <<method, method_name, displacements, points>>
videoVars == <<mraw, N, image_height, image_width>>

(***************************************************************************)
(* Bounds                                                                  *)
(***************************************************************************)
NProcs == 3        \* cooperating worker processes, ranks 0 .. NProcs-1
MaxRuns == 3       \* create_analysis_directory calls of one session
MaxSaves == 1      \* autosaving get_displacements calls of one session
MaxCalc == 1       \* completed calculate_displacements calls of one session
MaxDim == 2        \* largest extent of an array axis
MaxRank == 4       \* most axes of an array passed to pyIDI(...)
MaxMarkers == 1    \* markers placed in the 'Points' layer at a confirmation
MaxHalf == 3       \* largest marker coordinate, in half pixels

(***************************************************************************)
(* Program constants                                                       *)
(***************************************************************************)
PadWidth == 3                      \* f'analysis_{n+1:0>3.0f}'
ExternalName == "external_method"
Registry == {"sof", "lk", "lk_scipy", "lk_scipy2"}   \* available_method_shortcuts

NoName == "<absent>"
NoPoints == << <<>> >>             \* no point set; a point set is a sequence of <<row, column>>
NoDir == <<-1>>
NoErr == [cls |-> "", line |-> 0]
Raise(c, l) == [cls |-> c, line |-> l]

(***************************************************************************)
(* Run directory names.  A name is the text after 'analysis_', a sequence  *)
(* of decimal digits; a path glob returns is compared and split as the     *)
(* string  <root_analysis> sep 'analysis_' <name> sep.                     *)
(***************************************************************************)
RECURSIVE Digits(_)
Digits(n) == IF n < 10 THEN <<n>> ELSE Digits(n \div 10) \o <<n % 10>>

RECURSIVE PadLeft(_, _)
PadLeft(s, w) == IF Len(s) >= w THEN s ELSE PadLeft(<<0>> \o s, w)

\* f'{n:0>3.0f}': the decimal digits of n, filled with '0' on the left to width 3
FormatIndex(n) == PadLeft(Digits(n), PadWidth)

RECURSIVE ParseInt(_)
\* int('007') = 7
ParseInt(s) == IF s = <<>> THEN 0 ELSE 10 * ParseInt(SubSeq(s, 1, Len(s) - 1)) + s[Len(s)]

\* ord of the separator that ends every path glob returns: '\\' on nt, '/' on posix
SepCode == IF platform = "nt" THEN 92 ELSE 47

\* the characters of a globbed path after the common prefix '<root>/analysis_'
PathKey(name) == [i \in 1 .. Len(name) + 1 |->
                     IF i <= Len(name) THEN 48 + name[i] ELSE SepCode]

\* Python's str comparison a <= b
StrLeq(a, b) ==
    LET m == IF Len(a) < Len(b) THEN Len(a) ELSE Len(b)
        diff == {i \in 1 .. m : a[i] # b[i]}
    IN  IF diff = {} THEN Len(a) <= Len(b)
        ELSE LET i == CHOOSE j \in diff : \A k \in diff : j <= k
             IN  a[i] < b[i]

\* sorted(analyses)[-1]
SortedLast(S) == CHOOSE x \in S : \A y \in S : StrLeq(PathKey(y), PathKey(x))

\* last_an.split('\\'): the pieces of the path; each piece is [kind, name]
SplitBackslash(name) ==
    IF platform = "nt"
    THEN << [kind |-> "root", name |-> <<>>],
            [kind |-> "run", name |-> name],
            [kind |-> "empty", name |-> <<>>] >>
    ELSE << [kind |-> "whole", name |-> name] >>

\* int(last_an.split('\\')[-2].split('_')[-1]); ok = FALSE: [-2] raises IndexError
LastIndex(S) ==
    LET pieces == SplitBackslash(SortedLast(S))
    IN  IF Len(pieces) < 2 THEN [ok |-> FALSE, n |-> 0]
        ELSE [ok |-> TRUE, n |-> ParseInt(pieces[Len(pieces) - 1].name)]

\* the largest index among the names S (0 if none): what the directory holds
MaxIndex(S) == IF S = {} THEN 0
               ELSE CHOOSE m \in {ParseInt(x) : x \in S} :
                        \A k \in {ParseInt(x) : x \in S} : k <= m

(***************************************************************************)
(* Plugins.  The plugin classes are outside this file, so what a plugin    *)
(* instance exposes is an input: whether it has a process_number and which,*)
(* and whether it has clear_temp_files.  origin is the registry key the    *)
(* instance was built from, or "ext" for a class the caller supplied.      *)
(***************************************************************************)
NoMethod == [bound |-> FALSE, origin |-> "", hasProc |-> FALSE, proc |-> 0,
             hasClear |-> FALSE]

Inst(origin, hasProc, proc, hasClear) ==
    [bound |-> TRUE, origin |-> origin, hasProc |-> hasProc, proc |-> proc,
     hasClear |-> hasClear]

\* what a constructor call can do: raise exc, or return an instance
\* (clear_temp_files is only ever looked up on a plugin whose process_number is 0)
CtorOutcomes ==
    [raises : {TRUE}, exc : {"TypeError"}, hasProc : {FALSE}, proc : {0}, hasClear : {FALSE}]
    \cup [raises : {FALSE}, exc : {""}, hasProc : {FALSE}, proc : {0}, hasClear : {TRUE}]
    \cup [raises : {FALSE}, exc : {""}, hasProc : {TRUE}, proc : {1}, hasClear : {TRUE}]
    \cup [raises : {FALSE}, exc : {""}, hasProc : {TRUE}, proc : {0}, hasClear : BOOLEAN]

\* the arguments of set_method: a str, or an object that may be callable and may
\* have a calculate_displacements attribute
MethodArgs ==
    [isStr : {TRUE}, key : {"lk", "sof", "bogus"}, callable : {FALSE}, hasCalc : {FALSE}]
    \cup [isStr : {FALSE}, key : {""}, callable : BOOLEAN, hasCalc : BOOLEAN]

NoArg == [isStr |-> FALSE, key |-> "<none>", callable |-> FALSE, hasCalc |-> FALSE]

\* the method arguments of set_points(points=None, method=...): None, a registry
\* key, a plugin class, an unregistered name
PointsMethodArgs ==
    {a \in MethodArgs : a.key \in {"lk", "bogus"} \/ (a.callable /\ a.hasCalc)} \cup {NoArg}
NoOutcome == [raises |-> FALSE, exc |-> "", hasProc |-> FALSE, proc |-> 0, hasClear |-> FALSE]

\* set_method without the hasattr(method, 'calculate_displacements') test of line 86
SetMethodAnyCallable(m, name, arg, out) ==
    IF arg.isStr /\ arg.key \in Registry
    THEN IF out.raises
         THEN [method |-> m, method_name |-> arg.key, err |-> Raise(out.exc, 85)]
         ELSE [method |-> Inst(arg.key, out.hasProc, out.proc, out.hasClear),
               method_name |-> arg.key, err |-> NoErr]
    ELSE IF arg.callable
    THEN [method |-> Inst("ext", FALSE, 0, TRUE), method_name |-> ExternalName,
          err |-> NoErr]
    ELSE [method |-> m, method_name |-> name, err |-> Raise("ValueError", 93)]

\* set_method, lines 83-93: the attributes after the call and what it raises
SetMethodResult(m, name, arg, out) ==
    IF arg.isStr /\ arg.key \in Registry
    THEN IF out.raises
         THEN [method |-> m, method_name |-> arg.key, err |-> Raise(out.exc, 85)]
         ELSE [method |-> Inst(arg.key, out.hasProc, out.proc, out.hasClear),
               method_name |-> arg.key, err |-> NoErr]
    ELSE IF arg.callable /\ arg.hasCalc
    THEN IF out.raises
         THEN [method |-> m, method_name |-> ExternalName, err |-> Raise("ValueError", 91)]
         ELSE [method |-> Inst("ext", out.hasProc, out.proc, out.hasClear),
               method_name |-> ExternalName, err |-> NoErr]
    ELSE [method |-> m, method_name |-> name, err |-> Raise("ValueError", 93)]

\* does set_method(arg) call a constructor
Constructs(arg) == (arg.isStr /\ arg.key \in Registry) \/ (arg.callable /\ arg.hasCalc)

\* the outcomes to consider for set_method(arg)
OutcomesOf(arg) == IF Constructs(arg) THEN CtorOutcomes ELSE {NoOutcome}

\* the record of a top-level call: its name and arguments, and whether a plugin
\* constructor raised in it
Call(op, autosave, pts, arg, raised) ==
    [op |-> op, autosave |-> autosave, pts |-> pts, arg |-> arg, raised |-> raised]
NoCall == Call("none", FALSE, NoPoints, NoArg, FALSE)

Idle(p) == p \in procs /\ pc[p] = "idle"

\* set_method(method, **kwargs)
SetMethod(p, arg, out) ==
    /\ Idle(p)
    /\ LET r == SetMethodResult(method[p], method_name[p], arg, out)
       IN  /\ method' = [method EXCEPT ![p] = r.method]
           /\ method_name' = [method_name EXCEPT ![p] = r.method_name]
           /\ err' = [err EXCEPT ![p] = r.err]
    /\ call' = [call EXCEPT ![p] = Call("set_method", FALSE, NoPoints, arg, Constructs(arg) /\ out.raises)]
    /\ ret' = [ret EXCEPT ![p] = 0]
    /\ trace' = [trace EXCEPT ![p] = <<>>]
    /\ UNCHANGED <<videoVars, viewer, platform, fsVars, procs, cih, displacements, points,
                   root_this_analysis, pc, rootSeen, analyses, budget, created>>

SomePoints == << <<1, 1>> >>
PointInputs == {SomePoints}             \* explicit point sets a caller passes
PluginPoints == << <<2, 2>> >>        \* the point set a plugin's get_points derives

\* the test of line 112 taken as true on every session
AlwaysLacksMethod(p) == TRUE

\* line 112: not hasattr(self, 'method')
LacksMethod(p) == ~method[p].bound

\* set_points(points=None, method=None), lines 111-119; pts = NoPoints: points is None,
\* arg = NoArg: method is None
SetPoints(p, pts, arg, out) ==
    /\ Idle(p)
    /\ IF pts = NoPoints
       THEN IF LacksMethod(p)
            THEN IF arg # NoArg
                 THEN LET r == SetMethodResult(method[p], method_name[p], arg, out)
                      IN  /\ method' = [method EXCEPT ![p] = r.method]
                          /\ method_name' = [method_name EXCEPT ![p] = r.method_name]
                          /\ err' = [err EXCEPT ![p] = r.err]
                          /\ points' = [points EXCEPT ![p] =
                                          IF r.err = NoErr THEN PluginPoints ELSE @]
                          /\ trace' = [trace EXCEPT ![p] =
                                          IF r.err = NoErr THEN <<"get_points">> ELSE <<>>]
                 ELSE /\ err' = [err EXCEPT ![p] = Raise("ValueError", 116)]
                      /\ trace' = [trace EXCEPT ![p] = <<>>]
                      /\ UNCHANGED <<method, method_name, points>>
            ELSE /\ points' = [points EXCEPT ![p] = PluginPoints]
                 /\ err' = [err EXCEPT ![p] = NoErr]
                 /\ trace' = [trace EXCEPT ![p] = <<"get_points">>]
                 /\ UNCHANGED <<method, method_name>>
       ELSE /\ points' = [points EXCEPT ![p] = pts]
            /\ err' = [err EXCEPT ![p] = NoErr]
            /\ trace' = [trace EXCEPT ![p] = <<>>]
            /\ UNCHANGED <<method, method_name>>
    /\ call' = [call EXCEPT ![p] = Call("set_points", FALSE, pts, arg,
                       pts = NoPoints /\ LacksMethod(p) /\ arg # NoArg
                       /\ Constructs(arg) /\ out.raises)]
    /\ ret' = [ret EXCEPT ![p] = 0]
    /\ UNCHANGED <<videoVars, viewer, platform, fsVars, procs, cih, displacements,
                   root_this_analysis, pc, rootSeen, analyses, budget, created>>

(***************************************************************************)
(* Files.  The content of a file records what was dumped into it: the      *)
(* displacements (val), the points (pts), or the settings document, of     *)
(* which `method` is the 'method' key.  `plugin` is the origin of the      *)
(* plugin that was bound when the settings were written and `by` the       *)
(* writing process; complete = FALSE: json.dump raised after open().       *)
(***************************************************************************)
Content(by, val, pts, name, plugin, complete) ==
    [by |-> by, val |-> val, pts |-> pts, method |-> name, plugin |-> plugin,
     complete |-> complete]

\* a write that leaves no other file in the directory
WriteFileAlone(fs, d, n, c) ==
    {f \in fs : f.dir # d} \cup {[dir |-> d, name |-> n, content |-> c]}

\* open(os.path.join(d, n), 'w') and dump: the file is created or replaced
WriteFile(fs, d, n, c) ==
    {f \in fs : ~(f.dir = d /\ f.name = n)} \cup {[dir |-> d, name |-> n, content |-> c]}

Step(p, t) == trace' = [trace EXCEPT ![p] = Append(@, t)]

\* the call ends by raising e
Fail(p, e) ==
    /\ pc' = [pc EXCEPT ![p] = "idle"]
    /\ err' = [err EXCEPT ![p] = e]

\* the rank gate with a missing process_number read as rank 0
IsCoordinatorDefaultsToZero(m) == ~m.hasProc \/ m.proc = 0

\* lines 180-181: only a plugin that has a process_number, equal to 0, saves and clears
IsCoordinator(m) == m.hasProc /\ m.proc = 0

\* the method test reading the name that set_method stores before it constructs
HasMethodName(p) == method_name[p] # NoName

\* line 175: hasattr(self, 'method')
HasMethod(p) == method[p].bound

\* get_displacements(autosave), lines 175-183 and 189-191: the check that a method
\* is set, the computation, and the choice of what follows it
GetDisplacements(p, autosave, calcRaises) ==
    /\ Idle(p)
    /\ HasMethod(p) => displacements[p] < MaxCalc
    /\ autosave => budget[p] > 0
    /\ call' = [call EXCEPT ![p] =
                  Call("get_displacements", autosave, NoPoints, NoArg, FALSE)]
    /\ ret' = [ret EXCEPT ![p] =
                 IF HasMethod(p) /\ ~calcRaises /\ ~IsCoordinator(method[p])
                 THEN displacements[p] + 1 ELSE 0]
    /\ IF ~HasMethod(p)
       THEN /\ err' = [err EXCEPT ![p] = Raise("ValueError", 191)]
            /\ trace' = [trace EXCEPT ![p] = <<>>]
            /\ UNCHANGED <<method, displacements, pc, budget>>
       ELSE IF calcRaises
       THEN /\ err' = [err EXCEPT ![p] = Raise("RuntimeError", 176)]
            /\ trace' = [trace EXCEPT ![p] = <<"calc">>]
            /\ UNCHANGED <<method, displacements, pc, budget>>
       ELSE LET v == displacements[p] + 1
            IN  /\ displacements' = [displacements EXCEPT ![p] = v]
                /\ trace' = [trace EXCEPT ![p] = <<"calc", "store">>]
                /\ err' = [err EXCEPT ![p] = NoErr]
                /\ IF IsCoordinator(method[p])
                   THEN IF autosave
                        THEN /\ pc' = [pc EXCEPT ![p] = "cad_exists"]
                             /\ budget' = [budget EXCEPT ![p] = @ - 1]
                        ELSE /\ pc' = [pc EXCEPT ![p] = "clear"]
                             /\ UNCHANGED budget
                   ELSE UNCHANGED <<pc, budget>>
                /\ UNCHANGED method
    /\ UNCHANGED <<videoVars, viewer, platform, fsVars, procs, cih, method_name, points,
                   root_this_analysis, rootSeen, analyses, created>>

(***************************************************************************)
(* create_analysis_directory, lines 204-218, one action per system call.   *)
(***************************************************************************)
\* the outcome of one create_analysis_directory, appended to created[p]
Outcome(ok, name) == [ok |-> ok, name |-> name]

CadFail(p, e) ==
    /\ Fail(p, e)
    /\ created' = [created EXCEPT ![p] = Append(@, Outcome(FALSE, NoDir))]

\* lines 204-206: os.path.split(self.cih_file) and os.path.exists(self.root_analysis)
CadExists(p) ==
    /\ p \in procs /\ pc[p] = "cad_exists"
    /\ IF cih[p] = "array"
       THEN /\ CadFail(p, Raise("TypeError", 204))
            /\ UNCHANGED rootSeen
       ELSE /\ rootSeen' = [rootSeen EXCEPT ![p] = rootExists]
            /\ pc' = [pc EXCEPT ![p] = IF rootExists THEN "cad_glob" ELSE "cad_mkroot"]
            /\ UNCHANGED <<err, created>>
    /\ UNCHANGED <<videoVars, viewer, platform, fsVars, procs, cih, sessVars, root_this_analysis,
                   call, ret, trace, analyses, budget>>

\* line 207: os.mkdir(self.root_analysis)
CadMkRoot(p) ==
    /\ p \in procs /\ pc[p] = "cad_mkroot"
    /\ IF rootExists
       THEN /\ CadFail(p, Raise("FileExistsError", 207))
            /\ UNCHANGED <<rootExists, trace>>
       ELSE /\ rootExists' = TRUE
            /\ Step(p, "mkroot")
            /\ pc' = [pc EXCEPT ![p] = "cad_glob"]
            /\ UNCHANGED <<err, created>>
    /\ UNCHANGED <<videoVars, viewer, platform, runs, files, procs, cih, sessVars, root_this_analysis,
                   call, ret, rootSeen, analyses, budget>>

\* lines 210-215: n, or the IndexError of last_an.split('\\')[-2]
NextN(S) == IF S = {} THEN [ok |-> TRUE, n |-> 0] ELSE LastIndex(S)

\* lines 209-216: glob the run directories and name the new one
CadGlob(p) ==
    /\ p \in procs /\ pc[p] = "cad_glob"
    /\ analyses' = [analyses EXCEPT ![p] = runs]
    /\ LET r == NextN(runs)
       IN  IF r.ok
           THEN /\ root_this_analysis' =
                       [root_this_analysis EXCEPT ![p] = FormatIndex(r.n + 1)]
                /\ pc' = [pc EXCEPT ![p] = "cad_mkdir"]
                /\ UNCHANGED <<err, created>>
           ELSE /\ CadFail(p, Raise("IndexError", 212))
                /\ UNCHANGED root_this_analysis
    /\ UNCHANGED <<videoVars, viewer, platform, fsVars, procs, cih, sessVars, call, ret, trace,
                   rootSeen, budget>>

\* an os.mkdir that accepts an existing directory
MkdirExistOk(p) == FALSE

\* line 218: os.mkdir raises FileExistsError if the directory is there
MkdirRefused(p) == root_this_analysis[p] \in runs

\* line 218: os.mkdir(self.root_this_analysis); then back in the caller
CadMkdir(p) ==
    /\ p \in procs /\ pc[p] = "cad_mkdir"
    /\ IF MkdirRefused(p)
       THEN /\ CadFail(p, Raise("FileExistsError", 218))
            /\ UNCHANGED <<runs, trace>>
       ELSE /\ runs' = runs \cup {root_this_analysis[p]}
            /\ Step(p, "mkdir")
            /\ created' = [created EXCEPT ![p] =
                             Append(@, Outcome(TRUE, root_this_analysis[p]))]
            /\ pc' = [pc EXCEPT ![p] =
                        IF call[p].op = "get_displacements" THEN "save_results" ELSE "idle"]
            /\ UNCHANGED err
    /\ UNCHANGED <<videoVars, viewer, platform, rootExists, files, procs, cih, sessVars,
                   root_this_analysis, call, ret, rootSeen, analyses, budget>>

\* a direct call of create_analysis_directory()
CallCreate(p) ==
    /\ Idle(p)
    /\ budget[p] > 0
    /\ budget' = [budget EXCEPT ![p] = @ - 1]
    /\ call' = [call EXCEPT ![p] =
                  Call("create_analysis_directory", FALSE, NoPoints, NoArg, FALSE)]
    /\ pc' = [pc EXCEPT ![p] = "cad_exists"]
    /\ err' = [err EXCEPT ![p] = NoErr]
    /\ ret' = [ret EXCEPT ![p] = 0]
    /\ trace' = [trace EXCEPT ![p] = <<>>]
    /\ UNCHANGED <<videoVars, viewer, platform, fsVars, procs, cih, sessVars, root_this_analysis,
                   rootSeen, analyses, created>>

(***************************************************************************)
(* save(root), lines 222-234, one action per file, and clear_temp_files.   *)
(***************************************************************************)
\* the directory save writes into: save(root=self.root_this_analysis), line 185
SaveRoot(p) == root_this_analysis[p]

\* line 222: pickle.dump(self.displacements, open(<root>/results.pkl, 'wb'))
SaveResults(p) ==
    /\ p \in procs /\ pc[p] = "save_results"
    /\ IF displacements[p] = 0
       THEN /\ Fail(p, Raise("AttributeError", 222))
            /\ UNCHANGED <<files, trace>>
       ELSE /\ files' = WriteFile(files, SaveRoot(p), "results.pkl",
                           Content(p, displacements[p], NoPoints, NoName, "", TRUE))
            /\ Step(p, "results")
            /\ pc' = [pc EXCEPT ![p] = "save_points"]
            /\ UNCHANGED err
    /\ UNCHANGED <<videoVars, viewer, platform, rootExists, runs, procs, cih, sessVars, root_this_analysis,
                   call, ret, rootSeen, analyses, budget, created>>

\* line 223: pickle.dump(self.points, open(<root>/points.pkl, 'wb'))
SavePoints(p) ==
    /\ p \in procs /\ pc[p] = "save_points"
    /\ IF points[p] = NoPoints
       THEN /\ Fail(p, Raise("AttributeError", 223))
            /\ UNCHANGED <<files, trace>>
       ELSE /\ files' = WriteFile(files, SaveRoot(p), "points.pkl",
                           Content(p, 0, points[p], NoName, "", TRUE))
            /\ Step(p, "points")
            /\ pc' = [pc EXCEPT ![p] = "save_settings"]
            /\ UNCHANGED err
    /\ UNCHANGED <<videoVars, viewer, platform, rootExists, runs, procs, cih, sessVars, root_this_analysis,
                   call, ret, rootSeen, analyses, budget, created>>

\* the 'method' entry of the settings document, line 230
SettingsMethod(p) == method_name[p]

\* lines 225-234: build the settings document and json.dump it into settings.txt;
\* an ndarray cih_file is not JSON serializable: json.dump raises after open()
SaveSettings(p) ==
    /\ p \in procs /\ pc[p] = "save_settings"
    /\ IF ~method[p].bound
       THEN /\ Fail(p, Raise("AttributeError", 229))
            /\ UNCHANGED <<files, trace>>
       ELSE IF cih[p] = "array"
       THEN /\ files' = WriteFile(files, SaveRoot(p), "settings.txt",
                           Content(p, 0, NoPoints, NoName, method[p].origin, FALSE))
            /\ Fail(p, Raise("TypeError", 234))
            /\ UNCHANGED trace
       ELSE /\ files' = WriteFile(files, SaveRoot(p), "settings.txt",
                           Content(p, 0, NoPoints, SettingsMethod(p), method[p].origin, TRUE))
            /\ Step(p, "settings")
            /\ pc' = [pc EXCEPT ![p] =
                        IF call[p].op = "get_displacements" THEN "clear" ELSE "idle"]
            /\ UNCHANGED err
    /\ UNCHANGED <<videoVars, viewer, platform, rootExists, runs, procs, cih, sessVars, root_this_analysis,
                   call, ret, rootSeen, analyses, budget, created>>

\* lines 187-189: self.method.clear_temp_files(), then return self.displacements
Clear(p) ==
    /\ p \in procs /\ pc[p] = "clear"
    /\ IF method[p].hasClear
       THEN /\ Step(p, "clear")
            /\ pc' = [pc EXCEPT ![p] = "idle"]
            /\ ret' = [ret EXCEPT ![p] = displacements[p]]
            /\ UNCHANGED err
       ELSE /\ Fail(p, Raise("AttributeError", 187))
            /\ UNCHANGED <<trace, ret>>
    /\ UNCHANGED <<videoVars, viewer, platform, fsVars, procs, cih, sessVars, root_this_analysis,
                   call, rootSeen, analyses, budget, created>>

(***************************************************************************)
(* Construction and the video: pyIDI(cih_file), lines 30-67, close_video,  *)
(* lines 194-200, and show_field, which reads the first frame.  An input   *)
(* is its Python type and, for arrays and video files, the shape of the    *)
(* frames it holds.                                                        *)
(***************************************************************************)
Unset == 0                         \* N, image_height, image_width not assigned
NoVideo == [kind |-> "absent", shape |-> <<>>]

RECURSIVE Shapes(_)
\* the shapes of arrays of rank r
Shapes(r) == IF r = 0 THEN {<<>>}
             ELSE {Append(sh, d) : sh \in Shapes(r - 1), d \in 1 .. MaxDim}

\* the inputs of pyIDI(...): the path of a video file, whose frames have three
\* axes; an ndarray of any rank; a np.memmap (a subclass of ndarray); other types
InitInputs ==
    [type : {"str"}, shape : Shapes(3)]
    \cup [type : {"ndarray"}, shape : UNION {Shapes(r) : r \in 0 .. MaxRank}]
    \cup [type : {"memmap"}, shape : Shapes(3)]
    \cup [type : {"list", "NoneType"}, shape : {<<>>}]

\* what self.cih_file is, as the rest of the session tests it (type(...) == str)
KindOf(x) == IF x.type = "str" THEN "path"
             ELSE IF x.type = "ndarray" THEN "array" ELSE x.type

\* lines 53-67: the attributes __init__ assigns and the exception it raises;
\* shape[i] of a shape with fewer axes is an IndexError
InitResult(x) ==
    LET sh == x.shape
        failed(e) == [mraw |-> NoVideo, N |-> Unset, image_height |-> Unset,
                      image_width |-> Unset, err |-> e]
    IN  IF x.type = "str"
        THEN [mraw |-> [kind |-> "memmap", shape |-> sh], N |-> sh[1],
              image_height |-> sh[2], image_width |-> sh[3], err |-> NoErr]
        ELSE IF x.type = "ndarray"
        THEN IF Len(sh) < 3
             THEN failed(Raise("IndexError", 61 + Len(sh)))
             ELSE [mraw |-> [kind |-> "ndarray", shape |-> sh], N |-> sh[1],
                   image_height |-> sh[2], image_width |-> sh[3], err |-> NoErr]
        ELSE failed(Raise("ValueError", 67))

\* pyIDI(x): on an exception there is no session object ("failed")
Construct(p, x) ==
    /\ p \in procs /\ pc[p] = "new"
    /\ LET r == InitResult(x)
       IN  /\ mraw' = [mraw EXCEPT ![p] = r.mraw]
           /\ N' = [N EXCEPT ![p] = r.N]
           /\ image_height' = [image_height EXCEPT ![p] = r.image_height]
           /\ image_width' = [image_width EXCEPT ![p] = r.image_width]
           /\ err' = [err EXCEPT ![p] = r.err]
           /\ pc' = [pc EXCEPT ![p] = IF r.err = NoErr THEN "idle" ELSE "failed"]
    /\ cih' = [cih EXCEPT ![p] = KindOf(x)]
    /\ call' = [call EXCEPT ![p] = Call("__init__", FALSE, NoPoints, x, FALSE)]
    /\ ret' = [ret EXCEPT ![p] = 0]
    /\ trace' = [trace EXCEPT ![p] = <<>>]
    /\ UNCHANGED <<viewer, platform, fsVars, procs, sessVars, root_this_analysis,
                   rootSeen, analyses, budget, created>>

\* lines 198-200: close the memmap and drop self.mraw; an ndarray has no _mmap
CloseVideo(p) ==
    /\ Idle(p)
    /\ IF mraw[p] = NoVideo
       THEN /\ err' = [err EXCEPT ![p] = NoErr]
            /\ UNCHANGED mraw
       ELSE IF mraw[p].kind = "memmap"
       THEN /\ mraw' = [mraw EXCEPT ![p] = NoVideo]
            /\ err' = [err EXCEPT ![p] = NoErr]
       ELSE /\ err' = [err EXCEPT ![p] = Raise("AttributeError", 199)]
            /\ UNCHANGED mraw
    /\ call' = [call EXCEPT ![p] = Call("close_video", FALSE, NoPoints, NoArg, FALSE)]
    /\ ret' = [ret EXCEPT ![p] = 0]
    /\ trace' = [trace EXCEPT ![p] = <<>>]
    /\ UNCHANGED <<N, image_height, image_width, viewer, platform, fsVars, procs,
                   cih, sessVars, root_this_analysis, pc, rootSeen, analyses,
                   budget, created>>

\* line 156 of show_field: self.mraw[0], the read of a frame
ShowField(p) ==
    /\ Idle(p)
    /\ err' = [err EXCEPT ![p] = IF mraw[p] = NoVideo
                                 THEN Raise("AttributeError", 156) ELSE NoErr]
    /\ trace' = [trace EXCEPT ![p] = IF mraw[p] = NoVideo THEN <<>> ELSE <<"frame">>]
    /\ call' = [call EXCEPT ![p] = Call("show_field", FALSE, NoPoints, NoArg, FALSE)]
    /\ ret' = [ret EXCEPT ![p] = 0]
    /\ UNCHANGED <<videoVars, viewer, platform, fsVars, procs, cih, sessVars,
                   root_this_analysis, pc, rootSeen, analyses, budget, created>>

\* the viewer before __call__: none
NoViewer == [open |-> FALSE, widget |-> FALSE, roi_box |-> FALSE, layer |-> <<>>]

(***************************************************************************)
(* The point selector: __call__, lines 260-331.  A marker coordinate is a  *)
(* float; the model counts it in half pixels, so that h stands for h / 2.  *)
(***************************************************************************)
\* np.round of h / 2: to the nearest integer, a half to the even neighbour
RoundHalf(h) ==
    LET n == h \div 2
    IN  IF h % 2 = 0 THEN n ELSE IF n % 2 = 0 THEN n ELSE n + 1

\* line 301: np.round(viewer.layers['Points'].data).astype(int)
RoundAll(ms) == [i \in 1 .. Len(ms) |-> <<RoundHalf(ms[i][1]), RoundHalf(ms[i][2])>>]

\* what the 'Points' layer can hold when the button is pressed
MarkerSets ==
    UNION {[1 .. n -> (0 .. MaxHalf) \X (0 .. MaxHalf)] : n \in 0 .. MaxMarkers}

\* line 312: results of selection.get_roi_grid for the polygons drawn
GridOutcomes == {<<>>, << <<0, 0>> >>, << <<0, 0>>, <<0, 1>> >>}

\* the selections a press of the button can find: drawn = an 'Area Selection'
\* polygon is there, and get_roi_grid returns grid; else the markers count
Selections ==
    [drawn : {FALSE}, markers : MarkerSets, grid : {<<>>}]
    \cup [drawn : {TRUE}, markers : {<<>>}, grid : GridOutcomes]

\* lines 261-262 and 284-331: open the viewer on the video; with points show
\* them and their ROI boxes, without points dock the selector widget
Launch(p, hasSize) ==
    /\ Idle(p) /\ ~viewer[p].open
    /\ IF mraw[p] = NoVideo
       THEN /\ err' = [err EXCEPT ![p] = Raise("AttributeError", 262)]
            /\ viewer' = [viewer EXCEPT ![p].open = TRUE]
       ELSE IF points[p] # NoPoints
       THEN IF ~method[p].bound
            THEN /\ err' = [err EXCEPT ![p] = Raise("AttributeError", 265)]
                 /\ viewer' = [viewer EXCEPT ![p].open = TRUE, ![p].layer = points[p]]
            ELSE /\ err' = [err EXCEPT ![p] = NoErr]
                 /\ viewer' = [viewer EXCEPT ![p].open = TRUE, ![p].layer = points[p],
                                             ![p].roi_box = hasSize]
       ELSE /\ err' = [err EXCEPT ![p] = NoErr]
            /\ viewer' = [viewer EXCEPT ![p].open = TRUE, ![p].widget = TRUE]
    /\ call' = [call EXCEPT ![p] = Call("__call__", FALSE, NoPoints, NoArg, FALSE)]
    /\ ret' = [ret EXCEPT ![p] = 0]
    /\ trace' = [trace EXCEPT ![p] = <<>>]
    /\ UNCHANGED <<videoVars, platform, fsVars, procs, cih, sessVars,
                   root_this_analysis, pc, rootSeen, analyses, budget, created>>

\* widget_grid, lines 299-329: a press of 'Confirm selection'; sel: what the
\* layers hold, show: Show_ROI_box, hasSize: the plugin has subset_size or roi_size
WidgetGrid(p, sel, show, hasSize) ==
    /\ Idle(p) /\ viewer[p].widget
    /\ LET grid_points == IF sel.drawn THEN sel.grid ELSE RoundAll(sel.markers)
       IN  /\ call' = [call EXCEPT ![p] =
                         Call("widget_grid", FALSE, grid_points,
                              [drawn |-> sel.drawn, markers |-> sel.markers,
                               Show_ROI_box |-> show], FALSE)]
           /\ IF show /\ ~method[p].bound
              THEN \* line 318, 319-320, then view_ROI raises at self.method
                   /\ points' = [points EXCEPT ![p] = grid_points]
                   /\ viewer' = [viewer EXCEPT ![p].roi_box = FALSE]
                   /\ err' = [err EXCEPT ![p] = Raise("AttributeError", 265)]
                   /\ trace' = [trace EXCEPT ![p] = <<"points">>]
              ELSE /\ points' = [points EXCEPT ![p] =
                                   IF Len(grid_points) = 0 THEN NoPoints ELSE grid_points]
                   /\ viewer' = [viewer EXCEPT ![p].roi_box = show /\ hasSize,
                                               ![p].layer = grid_points]
                   /\ err' = [err EXCEPT ![p] = NoErr]
                   /\ trace' = [trace EXCEPT ![p] =
                                  IF Len(grid_points) = 0 THEN <<"points", "layer", "del">>
                                  ELSE <<"points", "layer">>]
    /\ ret' = [ret EXCEPT ![p] = 0]
    /\ UNCHANGED <<videoVars, platform, fsVars, procs, cih, method, method_name,
                   displacements, root_this_analysis, pc, rootSeen, analyses,
                   budget, created>>

\* the video of an already constructed session: a file or an array of two
\* frames of one pixel
InitVideo ==
    LET r(p) == InitResult([type |-> IF cih[p] = "path" THEN "str" ELSE "ndarray",
                            shape |-> <<2, 1, 1>>])
    IN  /\ mraw = [p \in procs |-> r(p).mraw]
        /\ N = [p \in procs |-> r(p).N]
        /\ image_height = [p \in procs |-> r(p).image_height]
        /\ image_width = [p \in procs |-> r(p).image_width]
        /\ viewer = [p \in procs |-> NoViewer]

(***************************************************************************)
(* One session: the state after pyIDI(cih_file), then any calls.  The      *)
(* analysis root may already hold run directories of earlier sessions.     *)
(***************************************************************************)
Platforms == {"nt", "posix"}
InitialRuns == { {}, {1}, {1, 3}, {999}, {100, 1000} }
Names(S) == {FormatIndex(i) : i \in S}

InitFs(R) ==
    /\ platform \in Platforms
    /\ runs \in {Names(S) : S \in R}
    /\ rootExists = (runs # {})
    /\ files = {}

InitSessions(P, b) ==
    /\ procs = P
    /\ method = [p \in P |-> NoMethod]
    /\ method_name = [p \in P |-> NoName]
    /\ displacements = [p \in P |-> 0]
    /\ points = [p \in P |-> NoPoints]
    /\ root_this_analysis = [p \in P |-> NoDir]
    /\ pc = [p \in P |-> "idle"]
    /\ call = [p \in P |-> NoCall]
    /\ err = [p \in P |-> NoErr]
    /\ ret = [p \in P |-> 0]
    /\ trace = [p \in P |-> <<>>]
    /\ rootSeen = [p \in P |-> FALSE]
    /\ analyses = [p \in P |-> {}]
    /\ budget = [p \in P |-> b]
    /\ created = [p \in P |-> <<>>]

Init ==
    /\ InitFs({{}, {1, 3}})
    /\ InitSessions({0}, MaxSaves)
    /\ cih \in [{0} -> {"path", "array"}]
    /\ InitVideo

Next ==
    \/ \E p \in procs : \E arg \in MethodArgs : \E out \in OutcomesOf(arg) :
          SetMethod(p, arg, out)
    \/ \E p \in procs : \E pts \in PointInputs : SetPoints(p, pts, NoArg, NoOutcome)
    \/ \E p \in procs : \E arg \in PointsMethodArgs :
          \E out \in (IF method[p].bound THEN {NoOutcome} ELSE OutcomesOf(arg)) :
              SetPoints(p, NoPoints, arg, out)
    \/ \E p \in procs : \E autosave \in BOOLEAN, calcRaises \in BOOLEAN :
          GetDisplacements(p, autosave, calcRaises)
    \/ \E p \in procs : CallCreate(p)
    \/ \E p \in procs : CadExists(p)
    \/ \E p \in procs : CadMkRoot(p)
    \/ \E p \in procs : CadGlob(p)
    \/ \E p \in procs : CadMkdir(p)
    \/ \E p \in procs : SaveResults(p)
    \/ \E p \in procs : SavePoints(p)
    \/ \E p \in procs : SaveSettings(p)
    \/ \E p \in procs : Clear(p)

Spec == Init /\ [][Next]_vars

(***************************************************************************)
(* The directory versioner alone: one session of a video file or an array  *)
(* calls create_analysis_directory() again and again, on an analysis root  *)
(* that may hold any run directories, also with gaps and past index 999.   *)
(***************************************************************************)
InitDirs ==
    /\ InitFs(InitialRuns)
    /\ InitSessions({0}, MaxRuns)
    /\ cih \in [{0} -> {"path", "array"}]
    /\ InitVideo

NextDirs ==
    \/ \E p \in procs : CallCreate(p)
    \/ \E p \in procs : CadExists(p)
    \/ \E p \in procs : CadMkRoot(p)
    \/ \E p \in procs : CadGlob(p)
    \/ \E p \in procs : CadMkdir(p)

SpecDirs == InitDirs /\ [][NextDirs]_vars

(***************************************************************************)
(* Cooperating workers: NProcs processes, each with its own session of the *)
(* same video file and points and its own instance of the same plugin      *)
(* class, whose process_number is the rank of the process.  Each calls     *)
(* get_displacements(autosave=True) once; their steps interleave freely.   *)
(***************************************************************************)
Workers == 0 .. NProcs - 1

InitWorkers ==
    /\ InitFs({{}, {1, 3}, {999, 1000}})
    /\ procs = Workers
    /\ cih = [p \in Workers |-> "path"]
    /\ InitVideo
    /\ \E hasClear \in BOOLEAN :
          method = [p \in Workers |-> Inst("lk", TRUE, p, hasClear)]
    /\ method_name = [p \in Workers |-> "lk"]
    /\ displacements = [p \in Workers |-> 0]
    /\ points = [p \in Workers |-> SomePoints]
    /\ root_this_analysis = [p \in Workers |-> NoDir]
    /\ pc = [p \in Workers |-> "idle"]
    /\ call = [p \in Workers |-> NoCall]
    /\ err = [p \in Workers |-> NoErr]
    /\ ret = [p \in Workers |-> 0]
    /\ trace = [p \in Workers |-> <<>>]
    /\ rootSeen = [p \in Workers |-> FALSE]
    /\ analyses = [p \in Workers |-> {}]
    /\ budget = [p \in Workers |-> 1]
    /\ created = [p \in Workers |-> <<>>]

\* a worker's one call: get_displacements(autosave=True)
WorkerCall(p) ==
    /\ call[p].op = "none"
    /\ \E calcRaises \in BOOLEAN : GetDisplacements(p, TRUE, calcRaises)

NextWorkers ==
    \/ \E p \in procs : WorkerCall(p)
    \/ \E p \in procs : CadExists(p)
    \/ \E p \in procs : CadMkRoot(p)
    \/ \E p \in procs : CadGlob(p)
    \/ \E p \in procs : CadMkdir(p)
    \/ \E p \in procs : SaveResults(p)
    \/ \E p \in procs : SavePoints(p)
    \/ \E p \in procs : SaveSettings(p)
    \/ \E p \in procs : Clear(p)

SpecWorkers == InitWorkers /\ [][NextWorkers]_vars

(***************************************************************************)
(* Independent sessions: two processes, each with its own session of the   *)
(* same video file and its own rank-0 plugin, nothing shared but the file  *)
(* system.  Each calls get_displacements(autosave=True) once.              *)
(***************************************************************************)
Sessions == {0, 1}

InitPair ==
    /\ InitFs({{}, {1, 3}, {999}})
    /\ procs = Sessions
    /\ cih = [p \in Sessions |-> "path"]
    /\ InitVideo
    /\ \E hasClear \in BOOLEAN :
          method = [p \in Sessions |-> Inst("lk", TRUE, 0, hasClear)]
    /\ method_name = [p \in Sessions |-> "lk"]
    /\ displacements = [p \in Sessions |-> 0]
    /\ points = [p \in Sessions |-> SomePoints]
    /\ root_this_analysis = [p \in Sessions |-> NoDir]
    /\ pc = [p \in Sessions |-> "idle"]
    /\ call = [p \in Sessions |-> NoCall]
    /\ err = [p \in Sessions |-> NoErr]
    /\ ret = [p \in Sessions |-> 0]
    /\ trace = [p \in Sessions |-> <<>>]
    /\ rootSeen = [p \in Sessions |-> FALSE]
    /\ analyses = [p \in Sessions |-> {}]
    /\ budget = [p \in Sessions |-> 1]
    /\ created = [p \in Sessions |-> <<>>]

SpecPair == InitPair /\ [][NextWorkers]_vars

(***************************************************************************)
(* Persisting on a file system that can fail: one session of a video file  *)
(* with a rank-0 plugin calls get_displacements(autosave=True) once, and   *)
(* any os.mkdir, open or dump of the save may raise OSError.               *)
(***************************************************************************)
\* the source line of the system call at each position
IoLine == [cad_mkroot |-> 207, cad_mkdir |-> 218, save_results |-> 222,
           save_points |-> 223, save_settings |-> 234]

\* the file written at each position of save
IoFile == [save_results |-> "results.pkl", save_points |-> "points.pkl",
           save_settings |-> "settings.txt"]

\* lines 207, 218: os.mkdir raises OSError (permissions, read-only or full disk)
CadIoError(p) ==
    /\ p \in procs /\ pc[p] \in {"cad_mkroot", "cad_mkdir"}
    /\ CadFail(p, Raise("OSError", IoLine[pc[p]]))
    /\ UNCHANGED <<videoVars, viewer, platform, fsVars, procs, cih, sessVars, root_this_analysis,
                   call, ret, trace, rootSeen, analyses, budget>>

\* lines 222, 223, 234: open raises OSError and there is no file (partial = FALSE),
\* or the dump raises it after open created the file (partial = TRUE)
SaveIoError(p, partial) ==
    /\ p \in procs /\ pc[p] \in DOMAIN IoFile
    /\ Fail(p, Raise("OSError", IoLine[pc[p]]))
    /\ files' = IF partial
                THEN WriteFile(files, SaveRoot(p), IoFile[pc[p]],
                               Content(p, 0, NoPoints, NoName, "", FALSE))
                ELSE files
    /\ UNCHANGED <<videoVars, viewer, platform, rootExists, runs, procs, cih, sessVars,
                   root_this_analysis, call, ret, trace, rootSeen, analyses,
                   budget, created>>

InitFaults ==
    /\ InitFs({{}, {1, 3}})
    /\ InitSessions({0}, 1)
    /\ cih = [p \in {0} |-> "path"]
    /\ InitVideo

\* the session's calls before its one get_displacements: bind a plugin, set points
SetUp(p) ==
    /\ call[p].op # "get_displacements"
    /\ \/ \E arg \in MethodArgs : \E out \in OutcomesOf(arg) : SetMethod(p, arg, out)
       \/ \E pts \in PointInputs : SetPoints(p, pts, NoArg, NoOutcome)

\* the one call: get_displacements(autosave=True)
SavingCall(p) ==
    /\ call[p].op # "get_displacements"
    /\ GetDisplacements(p, TRUE, FALSE)

NextFaults ==
    \/ \E p \in procs : SetUp(p)
    \/ \E p \in procs : SavingCall(p)
    \/ \E p \in procs : CadExists(p)
    \/ \E p \in procs : CadMkRoot(p)
    \/ \E p \in procs : CadGlob(p)
    \/ \E p \in procs : CadMkdir(p)
    \/ \E p \in procs : SaveResults(p)
    \/ \E p \in procs : SavePoints(p)
    \/ \E p \in procs : SaveSettings(p)
    \/ \E p \in procs : Clear(p)
    \/ \E p \in procs : CadIoError(p)
    \/ \E p \in procs : \E partial \in BOOLEAN : SaveIoError(p, partial)

SpecFaults == InitFaults /\ [][NextFaults]_vars

(***************************************************************************)
(* The video of one session: pyIDI(x) for any input x, then close_video    *)
(* and show_field in any order.                                            *)
(***************************************************************************)
InitNew ==
    /\ InitFs({{}})
    /\ procs = {0}
    /\ cih = [p \in {0} |-> "unset"]
    /\ method = [p \in {0} |-> NoMethod]
    /\ method_name = [p \in {0} |-> NoName]
    /\ displacements = [p \in {0} |-> 0]
    /\ points = [p \in {0} |-> NoPoints]
    /\ root_this_analysis = [p \in {0} |-> NoDir]
    /\ pc = [p \in {0} |-> "new"]
    /\ call = [p \in {0} |-> NoCall]
    /\ err = [p \in {0} |-> NoErr]
    /\ ret = [p \in {0} |-> 0]
    /\ trace = [p \in {0} |-> <<>>]
    /\ rootSeen = [p \in {0} |-> FALSE]
    /\ analyses = [p \in {0} |-> {}]
    /\ budget = [p \in {0} |-> 0]
    /\ created = [p \in {0} |-> <<>>]
    /\ mraw = [p \in {0} |-> NoVideo]
    /\ N = [p \in {0} |-> Unset]
    /\ image_height = [p \in {0} |-> Unset]
    /\ image_width = [p \in {0} |-> Unset]
    /\ viewer = [p \in {0} |-> NoViewer]

NextVideo ==
    \/ \E p \in procs : \E x \in InitInputs : Construct(p, x)
    \/ \E p \in procs : CloseVideo(p)
    \/ \E p \in procs : ShowField(p)

SpecVideo == InitNew /\ [][NextVideo]_vars

(***************************************************************************)
(* Selecting points by hand: one session of a video file opens the viewer  *)
(* and the operator presses 'Confirm selection' any number of times; a     *)
(* method may be set before, between or after.                             *)
(***************************************************************************)
InitWidget ==
    /\ InitFs({{}})
    /\ InitSessions({0}, 0)
    /\ cih = [p \in {0} |-> "path"]
    /\ InitVideo

\* the operator's set_method calls: a registry key or an unregistered name
WidgetMethodArgs == {a \in MethodArgs : a.isStr /\ a.key \in {"lk", "bogus"}}

NextWidget ==
    \/ \E p \in procs : \E arg \in WidgetMethodArgs : \E out \in OutcomesOf(arg) :
          SetMethod(p, arg, out)
    \/ \E p \in procs : \E hasSize \in BOOLEAN : Launch(p, hasSize)
    \/ \E p \in procs : \E sel \in Selections : \E show, hasSize \in BOOLEAN :
          WidgetGrid(p, sel, show, hasSize)

SpecWidget == InitWidget /\ [][NextWidget]_vars

(***************************************************************************)
(* What the claims speak of.                                               *)
(***************************************************************************)
RECURSIVE Count(_, _)
\* how often step t occurs in the sequence tr
Count(tr, t) == IF tr = <<>> THEN 0
                ELSE (IF Head(tr) = t THEN 1 ELSE 0) + Count(Tail(tr), t)

\* p's last call was op and has ended (returned or raised)
Ended(p, op) == call[p].op = op /\ pc[p] = "idle"

\* the computation of p's get_displacements call completed
Computed(p) == call[p].op = "get_displacements" /\ Count(trace[p], "store") = 1

Artifacts == {"results", "points", "settings"}

\* the steps of p's call that change the file system
Persisted(p) == {t \in Artifacts \cup {"mkroot", "mkdir"} : Count(trace[p], t) > 0}

\* the run directories that existed before p made any (one session)
RunsBefore(p) == runs \ {created[p][i].name : i \in 1 .. Len(created[p])}

\* C1 (as claimed): once N cooperating workers of ranks 0..N-1 have each ended
\* their get_displacements(autosave=True), computation completed, exactly one run
\* directory was made and each artifact was written exactly once, all by rank 0,
\* and no other rank made a directory or wrote an artifact.
C1_PersistedExactlyOnce ==
    (\A p \in procs : Ended(p, "get_displacements") /\ Computed(p))
    => /\ Count(trace[0], "mkdir") = 1
       /\ \A a \in Artifacts : Count(trace[0], a) = 1
       /\ \A p \in procs \ {0} : Persisted(p) = {}

\* C2 (as claimed): on an analysis root that started empty, the k-th sequential
\* create_analysis_directory() of a video-file session succeeds and creates
\* analysis_<k zero-padded to 3>, for every k.
C2_SequentialRuns ==
    \A p \in procs :
        (cih[p] = "path" /\ RunsBefore(p) = {})
        => \A i \in 1 .. Len(created[p]) :
               created[p][i] = Outcome(TRUE, FormatIndex(i))

\* p's get_displacements(autosave) ended after its computation completed, on the
\* plugin that is still bound
Finished(p, autosave) ==
    Ended(p, "get_displacements") /\ Computed(p) /\ call[p].autosave = autosave

\* C3 (as claimed): with a plugin that has no process_number, a completed
\* get_displacements(autosave=True) has made a run directory and written the
\* results, the points and the settings into it.
C3_SavesWithoutRank ==
    \A p \in procs :
        (Finished(p, TRUE) /\ ~method[p].hasProc)
        => Persisted(p) \ {"mkroot"} = Artifacts \cup {"mkdir"}

\* C3 (amended): with a plugin that has no process_number, get_displacements(
\* autosave=True) only computes, stores and returns the displacements: it makes
\* no directory, writes no artifact and does not call clear_temp_files.
C3_NoRankNoSave ==
    \A p \in procs :
        (Finished(p, TRUE) /\ ~method[p].hasProc)
        => /\ trace[p] = <<"calc", "store">>
           /\ err[p] = NoErr
           /\ displacements[p] > 0 /\ ret[p] = displacements[p]

\* C3 (witness): a get_displacements(autosave=True) has returned on a plugin
\* without process_number, on an analysis root where a save would have succeeded.
C3_Witness ==
    \E p \in procs :
        /\ Finished(p, TRUE) /\ ~method[p].hasProc
        /\ cih[p] = "path" /\ points[p] # NoPoints /\ platform = "nt"

\* C4 (as claimed): on a rank-0 plugin without clear_temp_files, a
\* get_displacements whose computation (and, with autosave, whose save) went
\* through ends without error and returns the displacements.
C4_ClearIsOptional ==
    \A p \in procs :
        ( /\ Ended(p, "get_displacements") /\ Computed(p)
          /\ IsCoordinator(method[p]) /\ ~method[p].hasClear
          /\ (call[p].autosave => Count(trace[p], "settings") = 1) )
        => (err[p] = NoErr /\ ret[p] = displacements[p])

\* C5 (as claimed): for a session built from an array, a completed rank-0
\* get_displacements(autosave=True) with points set has made a run directory and
\* written the three artifacts, the settings document complete.
C5_ArraySessionSaves ==
    \A p \in procs :
        ( /\ Finished(p, TRUE) /\ cih[p] = "array"
          /\ IsCoordinator(method[p]) /\ points[p] # NoPoints )
        => /\ Persisted(p) \ {"mkroot"} = Artifacts \cup {"mkdir"}
           /\ \E f \in files : /\ f.dir = root_this_analysis[p]
                               /\ f.name = "settings.txt"
                               /\ f.content.complete

\* the ValueError set_method raises for a method it does not accept (lines 91, 93)
IsInvalidMethodError(e) == e.cls = "ValueError" /\ e.line \in {91, 93}

\* C6 (as claimed): the 'method' entry of every settings document names the
\* plugin bound when it was saved: its registry key if it came from the
\* registry, and the external marker exactly if it was supplied directly.
C6_SettingsNameBoundPlugin ==
    \A f \in files :
        (f.name = "settings.txt" /\ f.content.complete)
        => /\ f.content.plugin \in Registry => f.content.method = f.content.plugin
           /\ f.content.method = ExternalName <=> f.content.plugin = "ext"

\* C7 (as claimed): a create_analysis_directory() of a video-file session ends
\* by creating the directory of index max(existing) + 1, which is above every
\* existing index and was not there before, whatever run directories exist.
C7_NextIndexIsMaxPlusOne ==
    \A p \in procs :
        (Ended(p, "create_analysis_directory") /\ cih[p] = "path")
        => /\ err[p] = NoErr
           /\ root_this_analysis[p] \notin analyses[p]
           /\ root_this_analysis[p] \in runs
           /\ ParseInt(root_this_analysis[p]) = MaxIndex(analyses[p]) + 1

\* the steps of p's call, the creation of the analysis root aside
Steps(p) == SelectSeq(trace[p], LAMBDA t : t # "mkroot")

\* C8 (as claimed): a rank-0 get_displacements whose computation completed, on a
\* plugin that has clear_temp_files, takes the steps calc, store, then with
\* autosave mkdir and the three writes, then clear, each once and in this order;
\* without autosave nothing is persisted.
C8_StepsInOrder ==
    \A p \in procs :
        ( /\ Ended(p, "get_displacements") /\ Computed(p)
          /\ IsCoordinator(method[p]) /\ method[p].hasClear )
        => Steps(p) = IF call[p].autosave
                      THEN <<"calc", "store", "mkdir", "results", "points",
                             "settings", "clear">>
                      ELSE <<"calc", "store", "clear">>

\* set_method(arg) has an argument that is neither a registry key nor an object
\* with a calculate_displacements attribute
Unacceptable(arg) == ~(arg.isStr /\ arg.key \in Registry) /\ ~arg.hasCalc

\* C9: set_method raises the invalid-method error for every argument that is
\* neither a registry key nor an object with calculate_displacements.
C9_RejectsInvalidMethod ==
    \A p \in procs :
        (call[p].op = "set_method" /\ Unacceptable(call[p].arg))
        => IsInvalidMethodError(err[p])

\* C9 (witness): a session with a bound plugin has had set_method('bogus') raise.
C9_Witness ==
    \E p \in procs :
        /\ call[p].op = "set_method" /\ call[p].arg.isStr /\ call[p].arg.key = "bogus"
        /\ method[p].bound
        /\ IsInvalidMethodError(err[p])

\* C10 (as claimed): a set_method in which the plugin constructor raised ends
\* with the invalid-method error, whether the plugin was named or supplied.
C10_CtorFailureIsInvalidMethod ==
    \A p \in procs :
        (call[p].op = "set_method" /\ call[p].raised)
        => IsInvalidMethodError(err[p])

\* the ValueError of get_displacements on a session without a method (line 191)
MethodNotSetError == Raise("ValueError", 191)

\* C11: get_displacements on a session without a bound plugin raises the
\* method-not-set error and does nothing else: no computation, no displacements
\* stored, no directory made, no file written; also after failed set_method calls.
C11_NoMethodNoEffect ==
    \A p \in procs :
        (Ended(p, "get_displacements") /\ ~method[p].bound)
        => /\ err[p] = MethodNotSetError
           /\ trace[p] = <<>> /\ ret[p] = 0
           /\ displacements[p] = 0
           /\ \A f \in files : f.content.by # p

\* C11 (witness): get_displacements has raised on a session whose only binding
\* attempt failed in the constructor (method_name is set, method is not).
C11_Witness ==
    \E p \in procs :
        /\ Ended(p, "get_displacements") /\ ~method[p].bound
        /\ method_name[p] # NoName
        /\ err[p] = MethodNotSetError

\* C15 (as claimed): a set_method call that fails leaves the bound plugin and
\* the recorded method name exactly as they were before the call.
C15_FailedBindKeepsBinding ==
    [][\A p \in procs :
          (pc[p] = "idle" /\ call'[p].op = "set_method" /\ err'[p] # NoErr)
          => /\ method'[p] = method[p]
             /\ method_name'[p] = method_name[p]]_vars

\* the ValueError of set_points without points, method and bound plugin (line 116)
NoPointsNoMethodError == Raise("ValueError", 116)

\* C16: a set_points call with explicit points stores exactly them and leaves
\* the binding alone; without points it calls the bound plugin's get_points
\* once, binding the given method first only if no plugin is bound; without
\* points, plugin and method it fails and changes neither points nor binding.
C16_SetPointsContract ==
    [][\A p \in procs :
          (pc[p] = "idle" /\ call'[p].op = "set_points")
          => LET c == call'[p]
                 sameBinding == /\ method'[p] = method[p]
                                /\ method_name'[p] = method_name[p]
                 delegated == /\ points'[p] = PluginPoints
                              /\ trace'[p] = <<"get_points">>
             IN  /\ c.pts # NoPoints
                    => /\ points'[p] = c.pts /\ sameBinding
                       /\ err'[p] = NoErr /\ trace'[p] = <<>>
                 /\ (c.pts = NoPoints /\ method[p].bound)
                    => sameBinding /\ delegated /\ err'[p] = NoErr
                 /\ (c.pts = NoPoints /\ ~method[p].bound /\ c.arg # NoArg
                     /\ err'[p] = NoErr)
                    => method'[p].bound /\ delegated
                 /\ (c.pts = NoPoints /\ ~method[p].bound /\ c.arg = NoArg)
                    => /\ err'[p] = NoPointsNoMethodError
                       /\ points'[p] = points[p] /\ sameBinding
                       /\ trace'[p] = <<>>]_vars

\* C16 (witness): set_points(method=...) on a session with a bound plugin has
\* derived the points from that plugin, which is not the one the call named.
C16_Witness ==
    \E p \in procs :
        /\ Ended(p, "set_points")
        /\ call[p].pts = NoPoints /\ call[p].arg # NoArg /\ call[p].arg.isStr
        /\ method[p].bound /\ method[p].origin # call[p].arg.key
        /\ points[p] = PluginPoints /\ trace[p] = <<"get_points">>

\* the FileExistsError of os.mkdir(self.root_this_analysis) (line 218)
RunDirExistsError == Raise("FileExistsError", 218)

\* p's call wrote at least one artifact
Wrote(p) == Persisted(p) \cap Artifacts # {}

\* p's create_analysis_directory made the run directory it selected
MadeRunDir(p) == Count(trace[p], "mkdir") = 1

\* C13: of two independent rank-0 sessions of one video whose
\* get_displacements(autosave=True) selected the same run directory, at most
\* one made it; the other ended with the directory-creation error after one
\* attempt and wrote nothing; no two sessions write into one run directory.
C13_OneSessionPerRunDir ==
    \A p, q \in procs :
        p # q =>
          /\ (Wrote(p) /\ Wrote(q)) => root_this_analysis[p] # root_this_analysis[q]
          /\ ( /\ Ended(p, "get_displacements") /\ Ended(q, "get_displacements")
               /\ root_this_analysis[p] # NoDir
               /\ root_this_analysis[p] = root_this_analysis[q] )
             => /\ ~(MadeRunDir(p) /\ MadeRunDir(q))
                /\ ~MadeRunDir(p)
                   => /\ err[p] = RunDirExistsError
                      /\ ~Wrote(p)
                      /\ created[p] = <<Outcome(FALSE, NoDir)>>

\* C13 (witness): both sessions saw the same run directories and selected the
\* same new one; one made it and wrote its artifacts, the other's mkdir raised.
C13_Witness ==
    \E p, q \in procs :
        /\ p # q
        /\ Ended(p, "get_displacements") /\ Ended(q, "get_displacements")
        /\ analyses[p] = analyses[q]
        /\ root_this_analysis[p] = root_this_analysis[q]
        /\ MadeRunDir(p) /\ Persisted(p) \cap Artifacts = Artifacts
        /\ err[q] = RunDirExistsError

\* the stage of persisting at which an exception of that source line is raised:
\* 1 creating the run directory, 2 results, 3 points, 4 settings; 0: none of them
FailedStage(e) ==
    IF e.line \in 204 .. 218 THEN 1
    ELSE IF e.line = 222 THEN 2
    ELSE IF e.line = 223 THEN 3
    ELSE IF e.line \in 225 .. 234 THEN 4
    ELSE 0

\* the stage at which each artifact is written, and its file
StageOf == [results |-> 2, points |-> 3, settings |-> 4]
FileOf == [results |-> "results.pkl", points |-> "points.pkl",
           settings |-> "settings.txt"]

\* the files named n in the run directory of p
RunFiles(p, n) == {f \in files : f.dir = root_this_analysis[p] /\ f.name = n}

\* C14: a get_displacements(autosave=True) that failed while persisting has
\* ended with that error, with the displacements stored; every artifact of a
\* stage before the failing one is in the run directory, complete; no artifact
\* of a later stage is there; at most one run directory was tried and made.
C14_PersistFailureSurfaces ==
    \A p \in procs :
        ( /\ Ended(p, "get_displacements") /\ Computed(p)
          /\ err[p] # NoErr /\ FailedStage(err[p]) > 0 )
        => /\ displacements[p] > 0 /\ ret[p] = 0
           /\ Len(created[p]) = 1 /\ Count(trace[p], "mkdir") <= 1
           /\ Count(trace[p], "clear") = 0
           /\ \A a \in Artifacts :
                 /\ StageOf[a] < FailedStage(err[p])
                    => /\ Count(trace[p], a) = 1
                       /\ \E f \in RunFiles(p, FileOf[a]) :
                             f.content.by = p /\ f.content.complete
                 /\ StageOf[a] > FailedStage(err[p])
                    => /\ Count(trace[p], a) = 0
                       /\ RunFiles(p, FileOf[a]) = {}

\* C14 (witness): the write of settings.txt raised OSError after results.pkl
\* and points.pkl were written; both are still in the run directory.
C14_Witness ==
    \E p \in procs :
        /\ Ended(p, "get_displacements") /\ Computed(p)
        /\ err[p] = Raise("OSError", 234)
        /\ RunFiles(p, "results.pkl") # {} /\ RunFiles(p, "points.pkl") # {}
        /\ root_this_analysis[p] \in runs

\* C12 (as claimed): pyIDI(x) constructs a session exactly for a path string
\* and for an array of three axes; for an array N, image_height and
\* image_width are its three extents in that order; every other input fails
\* with a ValueError.
C12_AcceptsExactlyTwoKinds ==
    \A p \in procs :
        call[p].op = "__init__" =>
          LET x == call[p].arg
              accepted == err[p] = NoErr
              threeD == x.type = "ndarray" /\ Len(x.shape) = 3
          IN  /\ accepted <=> (x.type = "str" \/ threeD)
              /\ (accepted /\ x.type = "ndarray")
                 => <<N[p], image_height[p], image_width[p]>> = x.shape
              /\ ~accepted => err[p].cls = "ValueError"

\* C17 (as claimed): close_video returns without error and leaves the session
\* without a frame source, for a video file and for an array; after it a read
\* of a frame fails, and a second close_video changes nothing and raises nothing.
C17_CloseReleasesSource ==
    \A p \in procs :
        /\ Ended(p, "close_video") => (err[p] = NoErr /\ mraw[p] = NoVideo)
        /\ (Ended(p, "show_field") /\ mraw[p] = NoVideo) => err[p] # NoErr

\* C18 (as claimed): after a 'Confirm selection' the session holds a point set
\* exactly if this confirmation produced a non-empty one, and then holds that
\* one; with no inclusion polygon drawn the set produced is the markers rounded
\* to integers.
C18_HoldsLastNonEmptySelection ==
    \A p \in procs :
        Ended(p, "widget_grid") =>
          LET produced == call[p].pts
          IN  /\ points[p] # NoPoints <=> Len(produced) > 0
              /\ Len(produced) > 0 => points[p] = produced
              /\ ~call[p].arg.drawn => produced = RoundAll(call[p].arg.markers)

====
